---- MODULE Spec2Model ----
(***************************************************************************)
(* Layered configuration of project-soukousei: the Layer contract          *)
(* (new / merge / complete), the multi-error accumulator                   *)
(* (MultipleFieldsError / FieldsAcc / WithPath), and the environment       *)
(* provider (EnvProvider), for the Sample / Nested / CustomLayer types of  *)
(* crates/soukousei/tests/manual_macro.rs.                                 *)
(*                                                                         *)
(* Representation:                                                         *)
(*   Option<T>     a sequence of length <= 1: None = <<>>, Some(v) = <<v>> *)
(*   String        a sequence of one-character strings                     *)
(*   Result<T, E>  [tag |-> "Ok", val |-> v] or [tag |-> "Err", err |-> e];*)
(*                 a panicking call is [tag |-> "Panic"]                   *)
(*   (A, B)        the tuple <<a, b>>                                      *)
(***************************************************************************)
EXTENDS Integers, Sequences, FiniteSets, TLC

VARIABLES
    pc,       \* position of the driver: which operation ran last
    env,      \* the EnvProvider: variable name -> outcome of fetch
    sources,  \* the layers merged so far, oldest first (history)
    layer,    \* the SampleLayer being assembled
    input,    \* the arguments of the last operation that takes any
    fetched,  \* the variable names the last operation passed to fetch, in order
    accumulator,  \* the MultipleFieldsError being built
    result    \* the value returned by the last operation

vars == <<pc, env, sources, layer, input, fetched, accumulator, result>>

-----------------------------------------------------------------------------
(* Bounds *)

\* how many sources are merged into one layer
MaxSources == 2

\* how many candidate variables one try_fetch_multiple_and_parse call is given
MaxKeys == 2

\* how many entries an accumulator may come to hold
MaxEntries == 2

\* how many segments the longest path of an accumulator may reach
MaxDepth == 3

\* values a CustomLayer may carry in the merge specifications
CustomVals == {1, 2}

Letters == <<"a", "b", "c", "d", "e">>

-----------------------------------------------------------------------------
(* Option and Result *)

None == <<>>
Some(v) == <<v>>
is_some(o) == Len(o) = 1
is_none(o) == Len(o) = 0

\* Option::or: self if it is Some, otherwise the argument
Or(self, optb) == IF is_some(self) THEN self ELSE optb

Ok(v) == [tag |-> "Ok", val |-> v]
Err(e) == [tag |-> "Err", err |-> e]
Panic == [tag |-> "Panic"]
NoResult == [tag |-> "NoResult"]

Max(a, b) == IF a >= b THEN a ELSE b

-----------------------------------------------------------------------------
(* WithPath, FieldsAcc, MultipleFieldsError *)

MissingFieldError == "MissingFieldError"

WithPath_new(value) == [path |-> <<>>, value |-> value]

add_loc(self, loc) == [self EXCEPT !.path = Append(@, loc)]

FieldsAcc_new == [paths |-> <<>>]

add_field(self, value, loc) ==
    [paths |-> Append(self.paths, add_loc(WithPath_new(value), loc))]

\* mutant: the entries of the child replace those of the parent
FieldsAcc_nest_replacing(self, other, loc) ==
    [paths |-> [i \in 1..Len(other.paths) |-> add_loc(other.paths[i], loc)]]

FieldsAcc_nest(self, other, loc) ==
    [paths |-> self.paths \o
               [i \in 1..Len(other.paths) |-> add_loc(other.paths[i], loc)]]

\* mutant: an accumulator of one entry counts as empty
is_empty_off_by_one(self) == Len(self.paths) <= 1

is_empty(self) == Len(self.paths) = 0

MultipleFieldsError_new == [fields |-> FieldsAcc_new]

add(self, err, loc) == [fields |-> add_field(self.fields, err, loc)]

nest(self, other, loc) ==
    [fields |-> FieldsAcc_nest(self.fields, other.fields, loc)]

MultipleFieldsError_result(self) ==
    IF is_empty(self.fields) THEN Ok(<<>>) ELSE Err(self)

\* mutant: an absent field is not recorded
add_if_none_silent(self, option, loc) == self

add_if_none(self, option, loc) ==
    IF is_none(option) THEN add(self, MissingFieldError, loc) ELSE self

\* CompleteError
MissingSelf == [kind |-> "MissingSelf"]
MissingFields(acc) == [kind |-> "MissingFields", acc |-> acc]

\* mutant: the entries of a failed nested layer are not folded into the parent
ResultExt_nest_if_err_lossy(self, errors, loc) ==
    IF self.tag = "Ok"
    THEN <<Some(self.val), errors>>
    ELSE <<None,
           IF self.err.kind = "MissingFields"
           THEN errors
           ELSE add(errors, MissingFieldError, loc)>>

\* impl ResultExt<T, MissingFieldError> for Result<T, CompleteError>
ResultExt_nest_if_err(self, errors, loc) ==
    IF self.tag = "Ok"
    THEN <<Some(self.val), errors>>
    ELSE <<None,
           IF self.err.kind = "MissingFields"
           THEN [fields |-> FieldsAcc_nest(errors.fields, self.err.acc.fields, loc)]
           ELSE add(errors, MissingFieldError, loc)>>

-----------------------------------------------------------------------------
(* CustomLayer, NestedLayer, SampleLayer: new and merge *)

CustomLayer_new == None

\* mutant: a value only the earlier source has is lost
CustomLayer_merge_forgetful(self, other) ==
    IF is_some(self) /\ is_some(other) THEN Some(Max(self[1], other[1]))
    ELSE IF is_some(other) THEN other
    ELSE None

CustomLayer_merge(self, other) ==
    IF is_some(self) /\ is_some(other) THEN Some(Max(self[1], other[1]))
    ELSE IF is_some(self) THEN self
    ELSE IF is_some(other) THEN other
    ELSE None

CustomLayer_complete(self) ==
    IF is_some(self) THEN Ok(self[1]) ELSE Err(MissingSelf)

NestedLayer_new == [foo_env |-> None, bar_env_multiple |-> None]

\* mutant: a source that leaves bar_env_multiple absent erases it
NestedLayer_merge_erasing(self, other) ==
    [foo_env          |-> Or(other.foo_env, self.foo_env),
     bar_env_multiple |-> other.bar_env_multiple]

\* mutant: the earlier source wins foo_env
NestedLayer_merge_left_biased(self, other) ==
    [foo_env          |-> Or(self.foo_env, other.foo_env),
     bar_env_multiple |-> Or(other.bar_env_multiple, self.bar_env_multiple)]

NestedLayer_merge(self, other) ==
    [foo_env          |-> Or(other.foo_env, self.foo_env),
     bar_env_multiple |-> Or(other.bar_env_multiple, self.bar_env_multiple)]

SampleLayer_new ==
    [with_default_foo |-> None,
     optional_bar     |-> None,
     required_baz     |-> None,
     nested           |-> NestedLayer_new,
     custom           |-> CustomLayer_new]

\* mutant: the earlier source wins the top-level plain fields
SampleLayer_merge_left_biased(self, other) ==
    [with_default_foo |-> Or(self.with_default_foo, other.with_default_foo),
     optional_bar     |-> Or(self.optional_bar, other.optional_bar),
     required_baz     |-> Or(self.required_baz, other.required_baz),
     nested           |-> NestedLayer_merge(self.nested, other.nested),
     custom           |-> CustomLayer_merge(self.custom, other.custom)]

\* mutant: the nested layer of the later source replaces the earlier one
SampleLayer_merge_flat(self, other) ==
    [with_default_foo |-> Or(other.with_default_foo, self.with_default_foo),
     optional_bar     |-> Or(other.optional_bar, self.optional_bar),
     required_baz     |-> Or(other.required_baz, self.required_baz),
     nested           |-> other.nested,
     custom           |-> CustomLayer_merge(self.custom, other.custom)]

SampleLayer_merge(self, other) ==
    [with_default_foo |-> Or(other.with_default_foo, self.with_default_foo),
     optional_bar     |-> Or(other.optional_bar, self.optional_bar),
     required_baz     |-> Or(other.required_baz, self.required_baz),
     nested           |-> NestedLayer_merge(self.nested, other.nested),
     custom           |-> CustomLayer_merge(self.custom, other.custom)]

-----------------------------------------------------------------------------
(* complete *)

\* mutant: the optional field is not carried into the complete value
NestedLayer_complete_dropping(self) ==
    LET errors == add_if_none(MultipleFieldsError_new, self.foo_env, "foo_env")
        r      == MultipleFieldsError_result(errors)
    IN  IF r.tag = "Err" THEN Err(MissingFields(r.err))
        ELSE IF is_none(self.foo_env) THEN Panic
        ELSE Ok([foo_env          |-> self.foo_env[1],
                 bar_env_multiple |-> None])

NestedLayer_complete(self) ==
    LET errors == add_if_none(MultipleFieldsError_new, self.foo_env, "foo_env")
        r      == MultipleFieldsError_result(errors)
    IN  IF r.tag = "Err" THEN Err(MissingFields(r.err))
        ELSE IF is_none(self.foo_env) THEN Panic
        ELSE Ok([foo_env          |-> self.foo_env[1],
                 bar_env_multiple |-> self.bar_env_multiple])

\* mutant: custom is resolved before nested
SampleLayer_complete_custom_first(self) ==
    LET e1 == add_if_none(MultipleFieldsError_new,
                          self.with_default_foo, "with_default_foo")
        e2 == add_if_none(e1, self.required_baz, "required_baz")
        c  == ResultExt_nest_if_err(CustomLayer_complete(self.custom), e2, "custom")
        n  == ResultExt_nest_if_err(NestedLayer_complete(self.nested), c[2], "nested")
        r  == MultipleFieldsError_result(n[2])
    IN  IF r.tag = "Err" THEN Err(MissingFields(r.err))
        ELSE Ok([with_default_foo |-> self.with_default_foo[1],
                 optional_bar     |-> self.optional_bar,
                 required_baz     |-> self.required_baz[1],
                 nested           |-> n[1][1],
                 custom           |-> c[1][1]])

SampleLayer_complete(self) ==
    LET e1 == add_if_none(MultipleFieldsError_new,
                          self.with_default_foo, "with_default_foo")
        e2 == add_if_none(e1, self.required_baz, "required_baz")
        n  == ResultExt_nest_if_err(NestedLayer_complete(self.nested), e2, "nested")
        c  == ResultExt_nest_if_err(CustomLayer_complete(self.custom), n[2], "custom")
        r  == MultipleFieldsError_result(c[2])
    IN  IF NestedLayer_complete(self.nested).tag = "Panic" THEN Panic
        ELSE IF r.tag = "Err" THEN Err(MissingFields(r.err))
        ELSE IF \/ is_none(self.with_default_foo)
                \/ is_none(self.required_baz)
                \/ is_none(n[1])
                \/ is_none(c[1])
             THEN Panic
        ELSE Ok([with_default_foo |-> self.with_default_foo[1],
                 optional_bar     |-> self.optional_bar,
                 required_baz     |-> self.required_baz[1],
                 nested           |-> n[1][1],
                 custom           |-> c[1][1]])

\* MultipleFieldsError::into_diagnostic: each path joined with "."
RECURSIVE join(_, _)
join(path, sep) ==
    IF Len(path) = 0 THEN ""
    ELSE IF Len(path) = 1 THEN path[1]
    ELSE path[1] \o sep \o join(Tail(path), sep)

into_diagnostic(self) ==
    [items |-> [i \in 1..Len(self.fields.paths) |->
                   [path |-> join(self.fields.paths[i].path, "."),
                    main |-> self.fields.paths[i].value]]]

-----------------------------------------------------------------------------
(* env: default_env_parse, EnvProvider, FromEnv *)

DigitChars == <<"0", "1", "2", "3", "4", "5", "6", "7", "8", "9">>

IsDigit(c) == \E i \in 1..Len(DigitChars) : DigitChars[i] = c

DigitVal(c) == (CHOOSE i \in 1..Len(DigitChars) : DigitChars[i] = c) - 1

\* u32::MAX in decimal
U32MaxDigits == <<"4", "2", "9", "4", "9", "6", "7", "2", "9", "5">>

RECURSIVE StripZeros(_)
StripZeros(s) ==
    IF Len(s) > 0 /\ s[1] = "0" THEN StripZeros(Tail(s)) ELSE s

\* a < b for digit strings of the same length
RECURSIVE DigitsLess(_, _)
DigitsLess(a, b) ==
    IF Len(a) = 0 THEN FALSE
    ELSE IF a[1] # b[1] THEN DigitVal(a[1]) < DigitVal(b[1])
    ELSE DigitsLess(Tail(a), Tail(b))

\* the number a digit string denotes exceeds u32::MAX (checked_mul/checked_add
\* fail), decided on the digits
OverflowsU32(s) ==
    LET d == StripZeros(s)
    IN  \/ Len(d) > Len(U32MaxDigits)
        \/ Len(d) = Len(U32MaxDigits) /\ DigitsLess(U32MaxDigits, d)

RECURSIVE DigitsValue(_, _)
DigitsValue(s, acc) ==
    IF Len(s) = 0 THEN acc ELSE DigitsValue(Tail(s), acc * 10 + DigitVal(s[1]))

ParseError == "Failed to parse value from string"
FetchError == "ENV var is not a valid utf-8 string"

\* <u32 as FromStr>::from_str: an optional leading "+", then one or more
\* decimal digits, and no overflow
u32_from_str(value) ==
    IF Len(value) = 0 THEN Err("Empty")
    ELSE IF value = <<"+">> \/ value = <<"-">> THEN Err("InvalidDigit")
    ELSE LET digits == IF value[1] = "+" THEN Tail(value) ELSE value
         IN  IF \E i \in 1..Len(digits) : ~IsDigit(digits[i]) THEN Err("InvalidDigit")
             ELSE IF OverflowsU32(digits) THEN Err("PosOverflow")
             ELSE Ok(DigitsValue(digits, 0))

\* default_env_parse::<T, _>, for the two field types read from the environment
default_env_parse(T, value) ==
    IF T = "String" THEN Ok(value)
    ELSE IF u32_from_str(value).tag = "Ok" THEN u32_from_str(value)
    ELSE Err(ParseError)

FieldFromEnvError_new(report, variable) == [variable |-> variable, report |-> report]

\* the state of one variable in the process environment
NotPresent == [state |-> "NotPresent"]
NotUnicode == [state |-> "NotUnicode"]
Present(raw) == [state |-> "Present", raw |-> raw]

\* EnvProvider::fetch (StdEnv)
fetch(provider, key) ==
    IF provider[key].state = "Present" THEN Ok(Some(provider[key].raw))
    ELSE IF provider[key].state = "NotPresent" THEN Ok(None)
    ELSE Err(FetchError)

\* mutant: a value that does not parse is treated as absent
fetch_and_parse_lenient(provider, key, T) ==
    LET f == fetch(provider, key)
    IN  IF f.tag = "Err" THEN Err(FieldFromEnvError_new(f.err, key))
        ELSE IF is_none(f.val) THEN Ok(None)
        ELSE LET parsed == default_env_parse(T, f.val[1])
             IN  IF parsed.tag = "Err" THEN Ok(None)
                 ELSE Ok(Some(parsed.val))

\* EnvProvider::fetch_and_parse
fetch_and_parse(provider, key, T) ==
    LET f == fetch(provider, key)
    IN  IF f.tag = "Err" THEN Err(FieldFromEnvError_new(f.err, key))
        ELSE IF is_none(f.val) THEN Ok(None)
        ELSE LET parsed == default_env_parse(T, f.val[1])
             IN  IF parsed.tag = "Err"
                 THEN Err(FieldFromEnvError_new(parsed.err, key))
                 ELSE Ok(Some(parsed.val))

\* mutant: the loop keeps the last candidate that is set instead of returning
\* at the first
RECURSIVE try_fetch_multiple_and_parse_run_last(_, _, _, _)
try_fetch_multiple_and_parse_run_last(provider, keys, T, log) ==
    IF Len(keys) = 0 THEN [ret |-> Ok(None), fetched |-> log]
    ELSE LET value == fetch_and_parse(provider, keys[1], T)
             rest  == try_fetch_multiple_and_parse_run_last(
                          provider, Tail(keys), T, Append(log, keys[1]))
         IN  IF value.tag = "Err" THEN [ret |-> value, fetched |-> Append(log, keys[1])]
             ELSE IF rest.ret.tag = "Ok" /\ is_none(rest.ret.val) /\ is_some(value.val)
                  THEN [ret |-> value, fetched |-> rest.fetched]
             ELSE rest

\* mutant: an error on a candidate falls through to the next candidate
RECURSIVE try_fetch_multiple_and_parse_run_fall_through(_, _, _, _)
try_fetch_multiple_and_parse_run_fall_through(provider, keys, T, log) ==
    IF Len(keys) = 0 THEN [ret |-> Ok(None), fetched |-> log]
    ELSE LET value == fetch_and_parse(provider, keys[1], T)
         IN  IF value.tag = "Ok" /\ is_some(value.val)
             THEN [ret |-> Ok(value.val), fetched |-> Append(log, keys[1])]
             ELSE try_fetch_multiple_and_parse_run_fall_through(
                      provider, Tail(keys), T, Append(log, keys[1]))

\* the loop of EnvProvider::try_fetch_multiple_and_parse over the remaining
\* keys; log is the keys already passed to fetch
RECURSIVE try_fetch_multiple_and_parse_run(_, _, _, _)
try_fetch_multiple_and_parse_run(provider, keys, T, log) ==
    IF Len(keys) = 0 THEN [ret |-> Ok(None), fetched |-> log]
    ELSE LET value == fetch_and_parse(provider, keys[1], T)
         IN  IF value.tag = "Err" THEN [ret |-> value, fetched |-> Append(log, keys[1])]
             ELSE IF is_some(value.val)
                  THEN [ret |-> Ok(value.val), fetched |-> Append(log, keys[1])]
             ELSE try_fetch_multiple_and_parse_run(
                      provider, Tail(keys), T, Append(log, keys[1]))

\* EnvProvider::try_fetch_multiple_and_parse
try_fetch_multiple_and_parse(provider, keys, T) ==
    try_fetch_multiple_and_parse_run(provider, keys, T, <<>>).ret

\* MultipleFieldsError<FieldFromEnvError>::add_if_err
add_if_err(self, loc, res) ==
    IF res.tag = "Ok" THEN <<res.val, self>>
    ELSE <<None, add(self, res.err, loc)>>

\* MultipleFieldsError::nest_if_err
nest_if_err(self, res, loc) ==
    IF res.tag = "Ok" THEN <<Some(res.val), self>>
    ELSE <<None, nest(self, res.err, loc)>>

BAR_ENV_MULTIPLE_VARIABLES == <<"SPECIFIC_BAR", "BAR">>

CustomLayer_from_env(provider) == Ok(CustomLayer_new)

\* mutant: from_env returns at the first failing field
NestedLayer_from_env_fail_fast(provider) ==
    LET foo == add_if_err(MultipleFieldsError_new, "foo_env",
                          fetch_and_parse(provider, "FOO", "String"))
        bar == add_if_err(foo[2], "bar_env_multiple",
                          try_fetch_multiple_and_parse(
                              provider, BAR_ENV_MULTIPLE_VARIABLES, "u32"))
    IN  IF MultipleFieldsError_result(foo[2]).tag = "Err" THEN Err(foo[2])
        ELSE IF MultipleFieldsError_result(bar[2]).tag = "Err" THEN Err(bar[2])
        ELSE Ok([foo_env |-> foo[1], bar_env_multiple |-> bar[1]])

NestedLayer_from_env(provider) ==
    LET foo == add_if_err(MultipleFieldsError_new, "foo_env",
                          fetch_and_parse(provider, "FOO", "String"))
        bar == add_if_err(foo[2], "bar_env_multiple",
                          try_fetch_multiple_and_parse(
                              provider, BAR_ENV_MULTIPLE_VARIABLES, "u32"))
        r   == MultipleFieldsError_result(bar[2])
    IN  IF r.tag = "Err" THEN Err(r.err)
        ELSE Ok([foo_env |-> foo[1], bar_env_multiple |-> bar[1]])

SampleLayer_from_env(provider) ==
    LET n == nest_if_err(MultipleFieldsError_new, NestedLayer_from_env(provider), "nested")
        c == nest_if_err(n[2], CustomLayer_from_env(provider), "custom")
        r == MultipleFieldsError_result(c[2])
    IN  IF r.tag = "Err" THEN Err(r.err)
        ELSE IF is_none(n[1]) \/ is_none(c[1]) THEN Panic
        ELSE Ok([with_default_foo |-> None,
                 optional_bar     |-> None,
                 required_baz     |-> None,
                 nested           |-> n[1][1],
                 custom           |-> c[1][1]])

-----------------------------------------------------------------------------
(* Default *)

StrDefaultFoo ==
    <<"I", " ", "a", "m", " ", "d", "e", "f", "a", "u", "l", "t", " ", "f", "o", "o", "!">>

CustomLayer_default == Some(100)

NestedLayer_default == [foo_env |-> Some(StrDefaultFoo), bar_env_multiple |-> None]

SampleLayer_default ==
    [with_default_foo |-> Some(100),
     optional_bar     |-> None,
     required_baz     |-> None,
     nested           |-> NestedLayer_default,
     custom           |-> CustomLayer_default]

-----------------------------------------------------------------------------
(* Inputs of the merge specification *)

StrOf(i) == <<Letters[((i - 1) % Len(Letters)) + 1]>>
BoolOf(i) == (i % 2 = 1)

Option(S) == {None} \cup {Some(v) : v \in S}

\* the layers whose present u32 fields hold a value of us, string fields one of
\* ss, bool field one of bs, and custom layer one of cs
LayerSet(us, ss, bs, cs) ==
    [with_default_foo : Option(us),
     optional_bar     : Option(ss),
     required_baz     : Option(bs),
     nested           : [foo_env          : Option(ss),
                         bar_env_multiple : Option(us)],
     custom           : Option(cs)]

\* What the i-th source can be: every subset of fields present; plain values
\* are marked with i, so that which source a merged value came from is visible.
SourceLayers(i) == LayerSet({i}, {StrOf(i)}, {BoolOf(i)}, CustomVals)

\* the variables the Nested fields read
Keys == {"FOO", "SPECIFIC_BAR", "BAR"}

\* the texts a variable may hold: empty, numbers (plain, signed, zero-padded),
\* not a number, a negative number, and u32::MAX + 1
RawStrings ==
    {<<>>, <<"7">>, <<"+", "7">>, <<"0", "4", "2">>, <<"x">>, <<"-", "1">>,
     <<"4", "2", "9", "4", "9", "6", "7", "2", "9", "6">>}

\* the providers whose variables are absent, unreadable or hold a text of raws
EnvsOver(raws) ==
    [Keys -> {NotPresent, NotUnicode} \cup {Present(raw) : raw \in raws}]

Envs == EnvsOver(RawStrings)

\* the providers of the pipeline: a number, and a text that is not a number
PipelineEnvs == EnvsOver({<<"7">>, <<"x">>})

EmptyEnv == [k \in Keys |-> NotPresent]

\* the sequences of at most n elements of S
RECURSIVE SeqsUpTo(_, _)
SeqsUpTo(S, n) ==
    IF n = 0 THEN {<<>>}
    ELSE SeqsUpTo(S, n - 1) \cup
         {Append(s, x) : s \in {q \in SeqsUpTo(S, n - 1) : Len(q) = n - 1}, x \in S}

KeyLists == SeqsUpTo(Keys, MaxKeys)

FieldTypes == {"String", "u32"}

\* what a document may deserialize to: every subset of fields present
DocLayers == LayerSet({7}, {<<"d">>}, {TRUE, FALSE}, {1, 200})

-----------------------------------------------------------------------------
(* Spec: a layer is built by merges from new(), then completed *)

Init ==
    /\ pc = "merging"
    /\ env = EmptyEnv
    /\ sources = <<>>
    /\ layer = SampleLayer_new
    /\ input = <<>>
    /\ fetched = <<>>
    /\ accumulator = MultipleFieldsError_new
    /\ result = NoResult

\* layer = layer.merge(other)
Merge ==
    /\ pc = "merging"
    /\ Len(sources) < MaxSources
    /\ \E other \in SourceLayers(Len(sources) + 1) :
          /\ layer' = SampleLayer_merge(layer, other)
          /\ sources' = Append(sources, other)
    /\ UNCHANGED <<pc, env, input, fetched, result>>
    /\ UNCHANGED accumulator

\* layer.complete()
Complete ==
    /\ pc = "merging"
    /\ result' = SampleLayer_complete(layer)
    /\ pc' = "completed"
    /\ sources' = <<>>
    /\ UNCHANGED <<env, layer, input, fetched>>
    /\ UNCHANGED accumulator

\* layer.nested.complete()
CompleteNested ==
    /\ pc = "merging"
    /\ result' = NestedLayer_complete(layer.nested)
    /\ pc' = "nested_completed"
    /\ sources' = <<>>
    /\ UNCHANGED <<env, layer, input, fetched>>
    /\ UNCHANGED accumulator

\* complete().map_err(|x| x.into_diagnostic())
Render ==
    /\ pc = "completed"
    /\ result.tag = "Err"
    /\ result.err.kind = "MissingFields"
    /\ result' = into_diagnostic(result.err.acc)
    /\ pc' = "rendered"
    /\ UNCHANGED <<env, sources, layer, input, fetched>>
    /\ UNCHANGED accumulator

Next == Merge \/ Complete \/ CompleteNested \/ Render

Spec == Init /\ [][Next]_vars

-----------------------------------------------------------------------------
(* SpecAssoc: the two groupings of merge(a, b, c), and merges with new() *)

\* merge(merge(a, b), c) and merge(a, merge(b, c))
Regroup ==
    /\ pc = "merging"
    /\ \E a \in SourceLayers(1), b \in SourceLayers(2), c \in SourceLayers(3) :
          /\ layer' = SampleLayer_merge(SampleLayer_merge(a, b), c)
          /\ result' = SampleLayer_merge(a, SampleLayer_merge(b, c))
    /\ pc' = "regrouped"
    /\ UNCHANGED <<env, sources, input, fetched>>
    /\ UNCHANGED accumulator

\* merge(new(), x) and merge(x, new())
MergeWithNew ==
    /\ pc = "merging"
    /\ \E x \in SourceLayers(1) \cup SourceLayers(2) :
          /\ layer' = SampleLayer_merge(SampleLayer_new, x)
          /\ result' = SampleLayer_merge(x, SampleLayer_new)
          /\ input' = x
    /\ pc' = "merged_with_new"
    /\ UNCHANGED <<env, sources, fetched>>
    /\ UNCHANGED accumulator

NextAssoc == Regroup \/ MergeWithNew

SpecAssoc == Init /\ [][NextAssoc]_vars

-----------------------------------------------------------------------------
(* SpecEnv: the operations that read the environment *)

InitEnv ==
    /\ pc = "env_ready"
    /\ env \in Envs
    /\ sources = <<>>
    /\ layer = SampleLayer_new
    /\ input = <<>>
    /\ fetched = <<>>
    /\ accumulator = MultipleFieldsError_new
    /\ result = NoResult

\* provider.fetch_and_parse(key, default_env_parse::<T>)
FetchAndParse ==
    /\ pc = "env_ready"
    /\ \E key \in Keys, T \in FieldTypes :
          /\ input' = <<key, T>>
          /\ result' = fetch_and_parse(env, key, T)
          /\ fetched' = <<key>>
    /\ pc' = "fetched_and_parsed"
    /\ UNCHANGED <<env, sources, layer>>
    /\ UNCHANGED accumulator

\* provider.try_fetch_multiple_and_parse(keys, default_env_parse::<T>)
TryFetchMultiple ==
    /\ pc = "env_ready"
    /\ \E keys \in KeyLists, T \in FieldTypes :
          /\ input' = <<keys, T>>
          /\ result' = try_fetch_multiple_and_parse(env, keys, T)
          /\ fetched' = try_fetch_multiple_and_parse_run(env, keys, T, <<>>).fetched
    /\ pc' = "tried_multiple"
    /\ UNCHANGED <<env, sources, layer>>
    /\ UNCHANGED accumulator

\* NestedLayer::from_env(&provider)
NestedFromEnv ==
    /\ pc = "env_ready"
    /\ result' = NestedLayer_from_env(env)
    /\ pc' = "nested_from_env"
    /\ UNCHANGED <<env, sources, layer, input, fetched>>
    /\ UNCHANGED accumulator

\* SampleLayer::from_env(&provider)
SampleFromEnv ==
    /\ pc = "env_ready"
    /\ result' = SampleLayer_from_env(env)
    /\ pc' = "sample_from_env"
    /\ UNCHANGED <<env, sources, layer, input, fetched>>
    /\ UNCHANGED accumulator

NextEnv == FetchAndParse \/ TryFetchMultiple \/ NestedFromEnv \/ SampleFromEnv

SpecEnv == InitEnv /\ [][NextEnv]_vars

-----------------------------------------------------------------------------
(* SpecPipeline: default().merge(document).merge(from_env(provider)?).complete() *)

\* SampleLayer::default()
StartDefault ==
    /\ pc = "env_ready"
    /\ layer' = SampleLayer_default
    /\ sources' = <<SampleLayer_default>>
    /\ pc' = "defaulted"
    /\ UNCHANGED <<env, input, fetched, result>>
    /\ UNCHANGED accumulator

\* .merge(toml::from_str(INPUT).unwrap())
MergeDocument ==
    /\ pc = "defaulted"
    /\ \E doc \in DocLayers :
          /\ layer' = SampleLayer_merge(layer, doc)
          /\ sources' = Append(sources, doc)
    /\ pc' = "document_merged"
    /\ UNCHANGED <<env, input, fetched, result>>
    /\ UNCHANGED accumulator

\* .merge(SampleLayer::from_env(&provider)?)
MergeEnv ==
    /\ pc = "document_merged"
    /\ LET r == SampleLayer_from_env(env)
       IN  IF r.tag = "Ok"
           THEN /\ layer' = SampleLayer_merge(layer, r.val)
                /\ sources' = Append(sources, r.val)
                /\ pc' = "env_merged"
                /\ UNCHANGED result
           ELSE /\ result' = r
                /\ pc' = "env_failed"
                /\ UNCHANGED <<layer, sources>>
    /\ UNCHANGED <<env, input, fetched>>
    /\ UNCHANGED accumulator

\* .complete()
Resolve ==
    /\ pc = "env_merged"
    /\ result' = SampleLayer_complete(layer)
    /\ pc' = "resolved"
    /\ UNCHANGED <<env, sources, layer, input, fetched>>
    /\ UNCHANGED accumulator

\* .complete() right after the document is merged, no layer read from the
\* environment (success_build_from_toml)
ResolveWithoutEnv ==
    /\ pc = "document_merged"
    /\ result' = SampleLayer_complete(layer)
    /\ pc' = "resolved_without_env"
    /\ UNCHANGED <<env, sources, layer, input, fetched>>
    /\ UNCHANGED accumulator

NextPipeline ==
    StartDefault \/ MergeDocument \/ MergeEnv \/ Resolve \/ ResolveWithoutEnv

InitPipeline ==
    /\ pc = "env_ready"
    /\ env \in PipelineEnvs
    /\ sources = <<>>
    /\ layer = SampleLayer_new
    /\ input = <<>>
    /\ fetched = <<>>
    /\ accumulator = MultipleFieldsError_new
    /\ result = NoResult

SpecPipeline == InitPipeline /\ [][NextPipeline]_vars

-----------------------------------------------------------------------------
(* soukousei_derive: LayerFieldArgs, LayerParamEnv, LayerField *)

\* LayerParamEnv
Single(name) == [kind |-> "Single", name |-> name]
Multiple(names) == [kind |-> "Multiple", names |-> names]

\* mutant: nested together with default is classified as Nested
LayerField_try_from_permissive(args) ==
    IF is_none(args.ident) THEN Err(<<>>)
    ELSE LET base == [ident |-> args.ident[1], ty |-> args.ty]
         IN  IF args.nested /\ is_none(args.env)
             THEN Ok([kind |-> "Nested", base |-> base])
             ELSE IF ~args.nested
             THEN Ok([kind |-> "Field", base |-> base,
                      default |-> args.default, env |-> args.env])
             ELSE Err(<<>>)

\* impl TryFrom<LayerFieldArgs> for LayerField
LayerField_try_from(args) ==
    IF is_none(args.ident) THEN Err(<<>>)
    ELSE LET base == [ident |-> args.ident[1], ty |-> args.ty]
         IN  IF args.nested /\ is_none(args.default) /\ is_none(args.env)
             THEN Ok([kind |-> "Nested", base |-> base])
             ELSE IF ~args.nested
             THEN Ok([kind |-> "Field", base |-> base,
                      default |-> args.default, env |-> args.env])
             ELSE Err(<<>>)

\* the field attributes darling may hand to the classification
LayerFieldArgsSet ==
    [ident   : Option({"foo", "nested"}),
     ty      : {"u32", "AnotherConfig"},
     default : Option({"100", "Default::default()"}),
     env     : Option({Single("ENV"), Single("FOO"),
                       Multiple(<<"FOO">>), Multiple(<<"FOO", "BAR">>)}),
     nested  : BOOLEAN]

-----------------------------------------------------------------------------
(* SpecSchema: one field of a #[derive(Layer)] struct is classified *)

InitSchema ==
    /\ pc = "schema_ready"
    /\ env = EmptyEnv
    /\ sources = <<>>
    /\ layer = SampleLayer_new
    /\ input \in LayerFieldArgsSet
    /\ fetched = <<>>
    /\ accumulator = MultipleFieldsError_new
    /\ result = NoResult

\* LayerField::try_from(field_args)
Classify ==
    /\ pc = "schema_ready"
    /\ result' = LayerField_try_from(input)
    /\ pc' = "classified"
    /\ UNCHANGED <<env, sources, layer, input, fetched, accumulator>>

NextSchema == Classify

SpecSchema == InitSchema /\ [][NextSchema]_vars

-----------------------------------------------------------------------------
(* SpecAcc: an accumulator is built from new() by its operations *)

\* the segments used as locations
Locs == {"nested", "foo_env"}

\* the leaf errors an accumulator of each kind carries
LeafErrors(kind) ==
    IF kind = "collecting_missing_fields" THEN {MissingFieldError}
    ELSE {FieldFromEnvError_new(ParseError, "FOO"), FieldFromEnvError_new(FetchError, "BAR")}

\* accumulators of one entry
SingleEntry(kind) ==
    {add(MultipleFieldsError_new, err, loc) : err \in LeafErrors(kind), loc \in Locs}

\* the accumulators a callee may hand back: empty, one entry, two entries at
\* two different fields, and one entry already nested once
ChildAccs(kind) ==
    {MultipleFieldsError_new} \cup SingleEntry(kind)
       \cup {add(a, err, loc) : a \in SingleEntry(kind), err \in LeafErrors(kind),
                                loc \in Locs \ {"nested"}}
       \cup {nest(MultipleFieldsError_new, a, loc) : a \in SingleEntry(kind), loc \in Locs}

Collecting == pc \in {"collecting_missing_fields", "collecting_env_errors"}

HasRoom == Len(accumulator.fields.paths) < MaxEntries

\* nesting child into parent stays within MaxEntries
Fits(parent, child) ==
    Len(parent.fields.paths) + Len(child.fields.paths) <= MaxEntries

Depth(acc) ==
    IF Len(acc.fields.paths) = 0 THEN 0
    ELSE CHOOSE d \in {Len(acc.fields.paths[i].path) : i \in 1..Len(acc.fields.paths)} :
            \A i \in 1..Len(acc.fields.paths) : Len(acc.fields.paths[i].path) <= d

InitAcc ==
    /\ pc \in {"collecting_missing_fields", "collecting_env_errors"}
    /\ env = EmptyEnv
    /\ sources = <<>>
    /\ layer = SampleLayer_new
    /\ input = <<>>
    /\ fetched = <<>>
    /\ accumulator = MultipleFieldsError_new
    /\ result = NoResult

\* errors.add(err, loc)
Add ==
    /\ Collecting /\ HasRoom
    /\ \E err \in LeafErrors(pc), loc \in Locs :
          /\ accumulator' = add(accumulator, err, loc)
          /\ input' = <<"add", err, loc>>
    /\ result' = NoResult
    /\ UNCHANGED <<pc, env, sources, layer, fetched>>

\* errors.add_if_none(&option, loc)
AddIfNone ==
    /\ pc = "collecting_missing_fields" /\ HasRoom
    /\ \E option \in Option({7}), loc \in Locs :
          /\ accumulator' = add_if_none(accumulator, option, loc)
          /\ input' = <<"add_if_none", option, loc>>
    /\ result' = NoResult
    /\ UNCHANGED <<pc, env, sources, layer, fetched>>

\* errors.add_if_err(loc, result)
AddIfErr ==
    /\ pc = "collecting_env_errors" /\ HasRoom
    /\ \E res \in {Ok(o) : o \in Option({7})} \cup {Err(e) : e \in LeafErrors(pc)},
          loc \in Locs :
          /\ accumulator' = add_if_err(accumulator, loc, res)[2]
          /\ result' = add_if_err(accumulator, loc, res)[1]
          /\ input' = <<"add_if_err", res, loc>>
    /\ UNCHANGED <<pc, env, sources, layer, fetched>>

\* errors.nest(other, loc)
Nest ==
    /\ Collecting /\ HasRoom
    /\ \E other \in ChildAccs(pc), loc \in Locs :
          /\ Fits(accumulator, other)
          /\ accumulator' = nest(accumulator, other, loc)
          /\ input' = <<"nest", other, loc>>
    /\ result' = NoResult
    /\ UNCHANGED <<pc, env, sources, layer, fetched>>

\* parent.nest(errors, loc): the accumulator built so far is returned to a
\* caller, which nests it into its own
NestInto ==
    /\ Collecting
    /\ Depth(accumulator) < MaxDepth
    /\ \E parent \in {MultipleFieldsError_new} \cup SingleEntry(pc), loc \in Locs :
          /\ Fits(parent, accumulator)
          /\ accumulator' = nest(parent, accumulator, loc)
          /\ input' = <<"nest_into", parent, loc>>
    /\ result' = NoResult
    /\ UNCHANGED <<pc, env, sources, layer, fetched>>

\* errors.nest_if_err(result, loc)
NestIfErr ==
    /\ Collecting /\ HasRoom
    /\ \E res \in {Ok(7)} \cup {Err(o) : o \in ChildAccs(pc)}, loc \in Locs :
          /\ res.tag = "Err" => Fits(accumulator, res.err)
          /\ accumulator' = nest_if_err(accumulator, res, loc)[2]
          /\ result' = nest_if_err(accumulator, res, loc)[1]
          /\ input' = <<"nest_if_err", res, loc>>
    /\ UNCHANGED <<pc, env, sources, layer, fetched>>

\* result.nest_if_err(errors, loc), for a Result<T, CompleteError>
ResultNestIfErr ==
    /\ pc = "collecting_missing_fields" /\ HasRoom
    /\ \E res \in {Ok(7), Err(MissingSelf)} \cup {Err(MissingFields(o)) : o \in ChildAccs(pc)},
          loc \in Locs :
          /\ (res.tag = "Err" /\ res.err # MissingSelf) => Fits(accumulator, res.err.acc)
          /\ accumulator' = ResultExt_nest_if_err(res, accumulator, loc)[2]
          /\ result' = ResultExt_nest_if_err(res, accumulator, loc)[1]
          /\ input' = <<"ResultExt::nest_if_err", res, loc>>
    /\ UNCHANGED <<pc, env, sources, layer, fetched>>

\* errors.result()
TakeResult ==
    /\ Collecting
    /\ result' = MultipleFieldsError_result(accumulator)
    /\ input' = <<"result">>
    /\ pc' = "result_taken"
    /\ UNCHANGED <<env, sources, layer, fetched, accumulator>>

NextAcc ==
    \/ Add \/ AddIfNone \/ AddIfErr \/ Nest \/ NestInto
    \/ NestIfErr \/ ResultNestIfErr \/ TakeResult

SpecAcc == InitAcc /\ [][NextAcc]_vars

-----------------------------------------------------------------------------
(* Vocabulary of the properties *)

PlainFields ==
    {"with_default_foo", "optional_bar", "required_baz", "foo_env", "bar_env_multiple"}

\* the value of plain field f of a SampleLayer, wherever it is declared
Plain(l, f) ==
    IF f \in {"foo_env", "bar_env_multiple"} THEN l.nested[f] ELSE l[f]

\* the required fields of Sample that are absent in l, with their paths root first
AbsentRequired(l) ==
    {p \in {<<"with_default_foo">>, <<"required_baz">>, <<"nested", "foo_env">>, <<"custom">>} :
        \/ p = <<"with_default_foo">> /\ is_none(l.with_default_foo)
        \/ p = <<"required_baz">> /\ is_none(l.required_baz)
        \/ p = <<"nested", "foo_env">> /\ is_none(l.nested.foo_env)
        \/ p = <<"custom">> /\ is_none(l.custom)}

\* the required fields of Nested that are absent in l
AbsentRequiredNested(l) == {p \in {<<"foo_env">>} : is_none(l.foo_env)}

\* the field an accumulator entry was first recorded at (its leaf segment)
Leaf(entry) == entry.path[1]

Last(s) == s[Len(s)]

\* the entries of a failed complete()
Entries(r) == r.err.acc.fields.paths

Range(s) == {s[i] : i \in 1..Len(s)}

\* the value of plain field f in the last of the sources that has it
RECURSIVE LastPresent(_, _)
LastPresent(srcs, f) ==
    IF Len(srcs) = 0 THEN None
    ELSE IF is_some(Plain(Last(srcs), f)) THEN Plain(Last(srcs), f)
    ELSE LastPresent(SubSeq(srcs, 1, Len(srcs) - 1), f)

-----------------------------------------------------------------------------
(* C1 *)

\* C1: one call to complete() on a layer with N absent required fields (at
\* every depth) fails with exactly N entries, one per absent required field,
\* and succeeds only when N = 0; absent optional fields add no entry.
C1_CompleteReportsEveryAbsentField ==
    /\ pc = "completed" =>
          IF AbsentRequired(layer) = {}
          THEN result.tag = "Ok"
          ELSE /\ result.tag = "Err"
               /\ result.err.kind = "MissingFields"
               /\ Len(Entries(result)) = Cardinality(AbsentRequired(layer))
               /\ {Leaf(e) : e \in Range(Entries(result))}
                     = {Last(p) : p \in AbsentRequired(layer)}
    /\ pc = "nested_completed" =>
          IF AbsentRequiredNested(layer.nested) = {}
          THEN result.tag = "Ok"
          ELSE /\ result.tag = "Err"
               /\ result.err.kind = "MissingFields"
               /\ Len(Entries(result)) = 1
               /\ Leaf(Entries(result)[1]) = "foo_env"

\* complete() ran on a layer with all four required fields and both optional
\* fields absent, and reported four entries
C1_Witness ==
    /\ pc = "completed"
    /\ Cardinality(AbsentRequired(layer)) = 4
    /\ is_none(layer.optional_bar)
    /\ is_none(layer.nested.bar_env_multiple)
    /\ result.tag = "Err"
    /\ Len(Entries(result)) = 4

-----------------------------------------------------------------------------
(* C2 *)

\* C2: resolving a partial missing with_default_foo, required_baz and
\* nested.foo_env (every other required field present) reports exactly 3
\* entries, rendered root first: with_default_foo, required_baz, nested.foo_env.
C2_RenderedPathsRootFirst ==
    (/\ pc = "rendered"
     /\ AbsentRequired(layer)
           = {<<"with_default_foo">>, <<"required_baz">>, <<"nested", "foo_env">>})
    => /\ Len(result.items) = 3
       /\ {it.path : it \in Range(result.items)}
             = {"with_default_foo", "required_baz", "nested.foo_env"}

-----------------------------------------------------------------------------
(* C3 *)

\* C3: for every plain field f, merge(a, b).f is b.f when b.f is present and
\* a.f otherwise (a is the layer before the step, b the source merged in).
C3_MergeRightBiased ==
    [][(pc = "merging" /\ pc' = "merging" /\ Len(sources') = Len(sources) + 1) =>
          \A f \in PlainFields :
             Plain(layer', f) =
                IF is_some(Plain(Last(sources'), f))
                THEN Plain(Last(sources'), f)
                ELSE Plain(layer, f)]_vars

\* two sources were merged: both had with_default_foo (the later one won), and
\* only the earlier one had foo_env (it was kept)
C3_Witness ==
    /\ pc = "merging"
    /\ Len(sources) = 2
    /\ is_some(sources[1].with_default_foo)
    /\ is_some(sources[2].with_default_foo)
    /\ sources[1].with_default_foo # sources[2].with_default_foo
    /\ layer.with_default_foo = sources[2].with_default_foo
    /\ is_some(sources[1].nested.foo_env)
    /\ is_none(sources[2].nested.foo_env)
    /\ layer.nested.foo_env = sources[1].nested.foo_env

-----------------------------------------------------------------------------
(* C5 *)

\* C5: after new().merge(s1)...merge(sn) each plain field holds the value of
\* the last source that has it, and is absent exactly when no source has it.
C5_LastPresentSourceWins ==
    pc = "merging" =>
       \A f \in PlainFields :
          /\ Plain(layer, f) = LastPresent(sources, f)
          /\ is_none(Plain(layer, f)) <=>
                \A i \in 1..Len(sources) : is_none(Plain(sources[i], f))

\* the earlier source set required_baz and optional_bar, the later one set
\* neither of them but overrode bar_env_multiple
C5_Witness ==
    /\ pc = "merging"
    /\ Len(sources) = 2
    /\ is_some(sources[1].required_baz)
    /\ is_none(sources[2].required_baz)
    /\ layer.required_baz = sources[1].required_baz
    /\ is_some(sources[1].nested.bar_env_multiple)
    /\ is_some(sources[2].nested.bar_env_multiple)
    /\ layer.nested.bar_env_multiple = sources[2].nested.bar_env_multiple
    /\ layer.nested.bar_env_multiple # sources[1].nested.bar_env_multiple

-----------------------------------------------------------------------------
(* C6 *)

\* C6: complete() on a layer whose required fields are all present
\* (transitively) returns Ok with every field equal to the layer's value;
\* optional fields keep their present/absent state.
C6_CompleteOfFullLayer ==
    /\ (pc = "completed" /\ AbsentRequired(layer) = {}) =>
          /\ result.tag = "Ok"
          /\ Some(result.val.with_default_foo) = layer.with_default_foo
          /\ result.val.optional_bar = layer.optional_bar
          /\ Some(result.val.required_baz) = layer.required_baz
          /\ Some(result.val.nested.foo_env) = layer.nested.foo_env
          /\ result.val.nested.bar_env_multiple = layer.nested.bar_env_multiple
          /\ Some(result.val.custom) = layer.custom
    /\ (pc = "nested_completed" /\ AbsentRequiredNested(layer.nested) = {}) =>
          /\ result.tag = "Ok"
          /\ Some(result.val.foo_env) = layer.nested.foo_env
          /\ result.val.bar_env_multiple = layer.nested.bar_env_multiple

\* a layer with every required field, optional_bar present and
\* bar_env_multiple absent was completed
C6_Witness ==
    /\ pc = "completed"
    /\ AbsentRequired(layer) = {}
    /\ is_some(layer.optional_bar)
    /\ is_none(layer.nested.bar_env_multiple)
    /\ result.tag = "Ok"
    /\ Some(result.val.optional_bar[1]) = layer.optional_bar

-----------------------------------------------------------------------------
(* C4 *)

\* C4: merge is associative, and new() is a left and a right identity of it,
\* for SampleLayer with its NestedLayer and CustomLayer (maximum of two
\* present values).
C4_MergeAssociativeWithIdentity ==
    /\ pc = "regrouped" => layer = result
    /\ pc = "merged_with_new" => layer = input /\ result = input

\* both groupings were computed for three sources where the last one won
\* with_default_foo, the second optional_bar, the first required_baz, and
\* custom is the maximum, which no later source lowered
C4_Witness ==
    /\ pc = "regrouped"
    /\ layer.with_default_foo = Some(3)
    /\ layer.optional_bar = Some(StrOf(2))
    /\ layer.required_baz = Some(BoolOf(1))
    /\ layer.nested.foo_env = Some(StrOf(1))
    /\ layer.custom = Some(2)
    /\ result = layer

-----------------------------------------------------------------------------
(* C7 *)

OnlyFooSet(e) ==
    /\ e["FOO"].state = "Present"
    /\ e["SPECIFIC_BAR"].state = "NotPresent"
    /\ e["BAR"].state = "NotPresent"

OnlyRequiredBazFalse == [SampleLayer_new EXCEPT !.required_baz = Some(FALSE)]

\* C7: default().merge(document).merge(from_env(provider)) then complete(),
\* for a document that sets only required_baz = false and a provider that has
\* only FOO set, succeeds with required_baz = false, nested.foo_env = the value
\* of FOO and with_default_foo = 100.
C7_PipelineRoundTrip ==
    (/\ pc \in {"env_merged", "env_failed", "resolved"}
     /\ sources[2] = OnlyRequiredBazFalse
     /\ OnlyFooSet(env))
    => /\ pc # "env_failed"
       /\ pc = "resolved" =>
             /\ result.tag = "Ok"
             /\ result.val.required_baz = FALSE
             /\ result.val.nested.foo_env = env["FOO"].raw
             /\ result.val.with_default_foo = 100

\* the pipeline ran to the end for that document and a provider with FOO = "x"
C7_Witness ==
    /\ pc = "resolved"
    /\ sources[2] = OnlyRequiredBazFalse
    /\ OnlyFooSet(env)
    /\ env["FOO"].raw = <<"x">>
    /\ result.tag = "Ok"
    /\ result.val.nested.foo_env = <<"x">>

-----------------------------------------------------------------------------
(* C8, C9 *)

\* the positions of the candidates that are not absent
SetCandidates(e, keys) == {i \in 1..Len(keys) : e[keys[i]].state # "NotPresent"}

Min(S) == CHOOSE i \in S : \A j \in S : i <= j

\* the variable fetches and parses to a value
Readable(e, key, T) ==
    /\ e[key].state = "Present"
    /\ default_env_parse(T, e[key].raw).tag = "Ok"

\* C8: try_fetch_multiple_and_parse returns the parsed value of the first
\* candidate that is set, skipping absent ones, and absent when none is set;
\* with candidates [SPECIFIC_BAR, BAR]: only BAR set yields BAR's value, both
\* set yields SPECIFIC_BAR's value.
C8_FirstSetCandidateWins ==
    pc = "tried_multiple" =>
       LET keys == input[1]
           T    == input[2]
           set  == SetCandidates(env, keys)
       IN  /\ set = {} => result = Ok(None)
           /\ (set # {} /\ Readable(env, keys[Min(set)], T)) =>
                 result = Ok(Some(default_env_parse(T, env[keys[Min(set)]].raw).val))
           /\ (/\ keys = <<"SPECIFIC_BAR", "BAR">>
               /\ T = "u32"
               /\ env["BAR"] = Present(<<"7">>)) =>
                 /\ env["SPECIFIC_BAR"] = NotPresent => result = Ok(Some(7))
                 /\ env["SPECIFIC_BAR"] = Present(<<"0", "4", "2">>) => result = Ok(Some(42))

\* both candidates of bar_env_multiple are set, to different numbers, and the
\* call returned SPECIFIC_BAR's
C8_Witness ==
    /\ pc = "tried_multiple"
    /\ input = <<(<<"SPECIFIC_BAR", "BAR">>), "u32">>
    /\ env["SPECIFIC_BAR"] = Present(<<"0", "4", "2">>)
    /\ env["BAR"] = Present(<<"7">>)
    /\ result = Ok(Some(42))

\* C9: a fetch or parse error on an examined candidate stops the search and
\* is returned as the error naming that variable; no candidate after the
\* first one that is set (readable or not) is fetched.
C9_ErrorStopsSearch ==
    pc = "tried_multiple" =>
       LET keys == input[1]
           T    == input[2]
           set  == SetCandidates(env, keys)
       IN  /\ set = {} => fetched = keys
           /\ set # {} =>
                 /\ fetched = SubSeq(keys, 1, Min(set))
                 /\ ~Readable(env, keys[Min(set)], T) =>
                       /\ result.tag = "Err"
                       /\ result.err.variable = keys[Min(set)]
                       /\ result.err.report =
                             IF env[keys[Min(set)]].state = "NotUnicode"
                             THEN FetchError ELSE ParseError

\* SPECIFIC_BAR holds a text that is no number and BAR a number: the call
\* failed on SPECIFIC_BAR and did not fetch BAR
C9_Witness ==
    /\ pc = "tried_multiple"
    /\ input = <<(<<"SPECIFIC_BAR", "BAR">>), "u32">>
    /\ env["SPECIFIC_BAR"] = Present(<<"x">>)
    /\ env["BAR"] = Present(<<"7">>)
    /\ result.tag = "Err"
    /\ result.err.variable = "SPECIFIC_BAR"
    /\ fetched = <<"SPECIFIC_BAR">>

-----------------------------------------------------------------------------
(* C10 *)

\* the fields of Nested whose environment lookup fails under provider e
FailingEnvFields(e) ==
    {f \in {"foo_env", "bar_env_multiple"} :
        \/ f = "foo_env" /\ e["FOO"].state = "NotUnicode"
        \/ /\ f = "bar_env_multiple"
           /\ SetCandidates(e, BAR_ENV_MULTIPLE_VARIABLES) # {}
           /\ ~Readable(e, BAR_ENV_MULTIPLE_VARIABLES[
                               Min(SetCandidates(e, BAR_ENV_MULTIPLE_VARIABLES))], "u32")}

\* what NestedLayer::from_env reads when nothing fails
NestedFromEnvValues(e) ==
    [foo_env |-> IF e["FOO"].state = "Present" THEN Some(e["FOO"].raw) ELSE None,
     bar_env_multiple |->
        LET set == SetCandidates(e, BAR_ENV_MULTIPLE_VARIABLES)
        IN  IF set = {} THEN None
            ELSE Some(u32_from_str(e[BAR_ENV_MULTIPLE_VARIABLES[Min(set)]].raw).val)]

\* C10: from_env visits every field that has environment candidates even
\* after an earlier one failed: with k failing fields it returns an
\* accumulator of exactly k entries, one per failing field, and Ok with the
\* fetched values only when k = 0.
C10_FromEnvCollectsEveryFailure ==
    pc \in {"nested_from_env", "sample_from_env"} =>
       IF FailingEnvFields(env) = {}
       THEN /\ result.tag = "Ok"
            /\ pc = "nested_from_env" => result.val = NestedFromEnvValues(env)
            /\ pc = "sample_from_env" =>
                  result.val = [SampleLayer_new EXCEPT !.nested = NestedFromEnvValues(env)]
       ELSE /\ result.tag = "Err"
            /\ Len(result.err.fields.paths) = Cardinality(FailingEnvFields(env))
            /\ {Leaf(e) : e \in Range(result.err.fields.paths)} = FailingEnvFields(env)

\* FOO is unreadable and the first set candidate of bar_env_multiple does not
\* parse: SampleLayer::from_env failed with two entries
C10_Witness ==
    /\ pc = "sample_from_env"
    /\ Cardinality(FailingEnvFields(env)) = 2
    /\ env["SPECIFIC_BAR"] = NotPresent
    /\ env["BAR"] = Present(<<"x">>)
    /\ result.tag = "Err"
    /\ Len(result.err.fields.paths) = 2

-----------------------------------------------------------------------------
(* C11 *)

\* C11: when a nested field's own complete() fails with
\* CompleteError::MissingSelf, the parent's failure keeps that field as a
\* distinct "self invalid" case: its entry is not an ordinary
\* MissingFieldError, the entry an absent plain field gets.
C11_MissingSelfKeptDistinct ==
    (pc = "completed" /\ CustomLayer_complete(layer.custom) = Err(MissingSelf)) =>
       /\ result.tag = "Err"
       /\ \A e \in Range(Entries(result)) :
             Leaf(e) = "custom" => e.value # MissingFieldError

-----------------------------------------------------------------------------
(* C12 *)

\* C12: a (named) field is classified as exactly one of Nested (nested set,
\* no default, no env) or Plain (nested not set, any default and env, kept as
\* declared); nested together with default or env is rejected with an error
\* and never classified.
C12_FieldClassification ==
    (pc = "classified" /\ is_some(input.ident)) =>
       IF input.nested
       THEN IF is_none(input.default) /\ is_none(input.env)
            THEN /\ result.tag = "Ok"
                 /\ result.val.kind = "Nested"
                 /\ result.val.base = [ident |-> input.ident[1], ty |-> input.ty]
            ELSE result.tag = "Err"
       ELSE /\ result.tag = "Ok"
            /\ result.val.kind = "Field"
            /\ result.val.base = [ident |-> input.ident[1], ty |-> input.ty]
            /\ result.val.default = input.default
            /\ result.val.env = input.env

\* a field declaring nested and default (and no env) was rejected
C12_Witness ==
    /\ pc = "classified"
    /\ is_some(input.ident)
    /\ input.nested
    /\ is_some(input.default)
    /\ is_none(input.env)
    /\ result.tag = "Err"

-----------------------------------------------------------------------------
(* C13 *)

\* C13: for every accumulator built from new() by add, add_if_none,
\* add_if_err, nest and nest_if_err, result() is Ok exactly when it has no
\* entries, and otherwise Err carrying the same accumulator with all entries.
C13_ResultOkIffEmpty ==
    pc = "result_taken" =>
       /\ result.tag = "Ok" <=> Len(accumulator.fields.paths) = 0
       /\ result.tag # "Ok" => result = Err(accumulator)

\* result() was taken of an accumulator of two or more entries, one of them
\* nested
C13_Witness ==
    /\ pc = "result_taken"
    /\ Len(accumulator.fields.paths) >= 2
    /\ \E i \in 1..Len(accumulator.fields.paths) : Len(accumulator.fields.paths[i].path) = 2
    /\ result = Err(accumulator)

-----------------------------------------------------------------------------
(* C14 *)

\* what C14 says of the entries of nest(parent, child, segment)
NestedUnder(parent, child, segment, r) ==
    LET p == parent.fields.paths
        c == child.fields.paths
    IN  /\ Len(r) = Len(p) + Len(c)
        /\ \A i \in 1..Len(p) : r[i] = p[i]
        /\ \A j \in 1..Len(c) :
              /\ r[Len(p) + j].value = c[j].value
              /\ Len(r[Len(p) + j].path) = Len(c[j].path) + 1
              /\ SubSeq(r[Len(p) + j].path, 1, Len(c[j].path)) = c[j].path
              /\ Last(r[Len(p) + j].path) = segment

\* the child with segment s1 already on each of its paths
PreNested(child, s1) ==
    [fields |-> [paths |-> [j \in 1..Len(child.fields.paths) |->
        [path |-> child.fields.paths[j].path \o <<s1>>,
         value |-> child.fields.paths[j].value]]]]

\* C14's two halves for one call of nest
NestAsClaimed(parent, child, segment) ==
    /\ NestedUnder(parent, child, segment, nest(parent, child, segment).fields.paths)
    /\ \A s1 \in Locs :
          nest(parent, nest(MultipleFieldsError_new, child, s1), segment)
             = nest(parent, PreNested(child, s1), segment)

\* C14: nest(parent, child, segment) leaves the parent's entries unchanged and
\* appends one entry per entry of the child, in the child's order, with segment
\* as the new outermost segment of its path, so that the result has
\* len(parent) + len(child) entries; nesting under s1 and then under s2 gives
\* the paths of nesting a child already nested under s1.
C14_NestAppendsChildUnderSegment ==
    [][/\ (Len(input') > 0 /\ input'[1] = "nest") =>
             /\ accumulator' = nest(accumulator, input'[2], input'[3])
             /\ NestAsClaimed(accumulator, input'[2], input'[3])
       /\ (Len(input') > 0 /\ input'[1] = "nest_into") =>
             /\ accumulator' = nest(input'[2], accumulator, input'[3])
             /\ NestAsClaimed(input'[2], accumulator, input'[3])]_vars

\* a child was nested into a parent that had an entry, and an entry of the
\* result has been nested twice
C14_Witness ==
    /\ pc \in {"collecting_missing_fields", "collecting_env_errors"}
    /\ Len(input) > 0
    /\ input[1] = "nest_into"
    /\ Len(input[2].fields.paths) = 1
    /\ Len(accumulator.fields.paths) >= 2
    /\ \E i \in 1..Len(accumulator.fields.paths) :
          Len(accumulator.fields.paths[i].path) = 3

-----------------------------------------------------------------------------
(* C15 *)

\* the required fields of Sample in the order the struct declares them, a
\* nested field standing for its own required fields in their order
DeclaredOrder ==
    << <<"with_default_foo">>, <<"required_baz">>, <<"nested", "foo_env">>, <<"custom">> >>

\* the path of an entry read from the root down
RootFirst(entry) == [i \in 1..Len(entry.path) |-> entry.path[Len(entry.path) + 1 - i]]

\* the declared order restricted to the fields absent in l
AbsentInDeclaredOrder(l) ==
    LET IsAbsent(p) == p \in AbsentRequired(l)
    IN  SelectSeq(DeclaredOrder, IsAbsent)

\* C15: the entries of a resolution failure come in the order the fields are
\* declared, depth first: the entries of a nested field stand where the nested
\* field stands; the order is a function of the partial value alone.
C15_EntriesInDeclarationOrder ==
    (pc = "completed" /\ result.tag = "Err") =>
       [i \in 1..Len(Entries(result)) |-> RootFirst(Entries(result)[i])]
          = AbsentInDeclaredOrder(layer)

\* all four required fields are absent, the nested one between required_baz
\* and custom
C15_Witness ==
    /\ pc = "completed"
    /\ result.tag = "Err"
    /\ Len(Entries(result)) = 4
    /\ Entries(result)[3].path = <<"foo_env", "nested">>
    /\ Leaf(Entries(result)[4]) = "custom"

-----------------------------------------------------------------------------
(* C16 *)

\* C16: fetch_and_parse yields Ok(absent) when the variable is absent,
\* Ok(parsed value) when it is present and parses, and an error naming the key
\* when the fetch fails or the parser rejects the value; it never panics and
\* never turns a failure into absent.
C16_FetchAndParseOutcomes ==
    pc = "fetched_and_parsed" =>
       LET key == input[1]
           T   == input[2]
           var == env[key]
       IN  /\ result.tag \in {"Ok", "Err"}
           /\ var.state = "NotPresent" => result = Ok(None)
           /\ Readable(env, key, T) =>
                 result = Ok(Some(default_env_parse(T, var.raw).val))
           /\ (var.state # "NotPresent" /\ ~Readable(env, key, T)) =>
                 /\ result.tag = "Err"
                 /\ result.err.variable = key
                 /\ result.err.report =
                       IF var.state = "NotUnicode" THEN FetchError ELSE ParseError
           /\ result = Ok(None) => var.state = "NotPresent"

\* the variable holds a text that is not a number, read as a u32: the error
\* names the key
C16_Witness ==
    /\ pc = "fetched_and_parsed"
    /\ input[2] = "u32"
    /\ env[input[1]] = Present(<<"x">>)
    /\ result = Err(FieldFromEnvError_new(ParseError, input[1]))

-----------------------------------------------------------------------------
(* C17 *)

\* C17: the declared-defaults layer of Sample merged with the layer of a
\* document that sets no field completes successfully:
\* SampleLayer::default().merge(from_document(empty)).complete() is Ok.
C17_DefaultsWithEmptyDocumentComplete ==
    (/\ pc = "resolved_without_env"
     /\ sources = <<SampleLayer_default, SampleLayer_new>>) =>
       result.tag = "Ok"

-----------------------------------------------------------------------------
(* C18 *)

NestedFields == {"foo_env", "bar_env_multiple"}

\* what CustomLayer's merge makes of two sides: the greater when both are
\* present, else the one that is present
CustomMerged(a, b) ==
    IF is_none(a) THEN b
    ELSE IF is_none(b) THEN a
    ELSE IF a[1] >= b[1] THEN a ELSE b

\* C18: merge(a, b) sets the nested field to the recursive merge of a.nested
\* and b.nested, never to b.nested wholesale: a field present only in a.nested
\* is still present in the result even when b.nested sets other fields; the
\* custom field is the CustomLayer merge of both sides.
C18_NestedMergedRecursively ==
    [][(pc = "merging" /\ pc' = "merging" /\ Len(sources') = Len(sources) + 1) =>
          LET a == layer
              b == Last(sources')
          IN  /\ layer'.nested = NestedLayer_merge(a.nested, b.nested)
              /\ \A f \in NestedFields :
                    /\ is_some(b.nested[f]) => layer'.nested[f] = b.nested[f]
                    /\ is_none(b.nested[f]) => layer'.nested[f] = a.nested[f]
              /\ (\E f \in NestedFields : is_some(a.nested[f]) /\ is_none(b.nested[f]))
                    => layer'.nested # b.nested
              /\ layer'.custom = CustomMerged(a.custom, b.custom)]_vars

\* the earlier source had only nested.foo_env, the later one only
\* nested.bar_env_multiple: the merged nested layer has both; custom is the
\* greater of the two, which is the earlier one
C18_Witness ==
    /\ pc = "merging"
    /\ Len(sources) = 2
    /\ is_some(sources[1].nested.foo_env) /\ is_none(sources[1].nested.bar_env_multiple)
    /\ is_none(sources[2].nested.foo_env) /\ is_some(sources[2].nested.bar_env_multiple)
    /\ layer.nested = [foo_env          |-> sources[1].nested.foo_env,
                       bar_env_multiple |-> sources[2].nested.bar_env_multiple]
    /\ sources[1].custom = Some(2) /\ sources[2].custom = Some(1)
    /\ layer.custom = Some(2)

-----------------------------------------------------------------------------
(* C19 *)

\* C19: complete() builds the resolved value only when the accumulator is
\* empty after all fields were visited: past errors.result()? every required
\* plain field is present and every nested field resolved, so no unwrap()
\* panics, and a failed nested resolution never yields Ok for the parent.
C19_ResolvedOnlyWhenNothingMissing ==
    /\ pc = "completed" =>
          /\ result.tag \in {"Ok", "Err"}
          /\ result.tag = "Ok" =>
                /\ is_some(layer.with_default_foo)
                /\ is_some(layer.required_baz)
                /\ NestedLayer_complete(layer.nested).tag = "Ok"
                /\ CustomLayer_complete(layer.custom).tag = "Ok"
          /\ result.tag = "Err" => Len(Entries(result)) > 0
          /\ NestedLayer_complete(layer.nested).tag # "Ok" => result.tag = "Err"
          /\ CustomLayer_complete(layer.custom).tag # "Ok" => result.tag = "Err"
    /\ pc = "nested_completed" =>
          /\ result.tag \in {"Ok", "Err"}
          /\ result.tag = "Ok" => is_some(layer.nested.foo_env)
          /\ result.tag = "Err" => Len(Entries(result)) > 0

\* complete() passed errors.result()? and built the value from the unwrapped
\* fields and the resolved nested layer
C19_Witness ==
    /\ pc = "completed"
    /\ result.tag = "Ok"
    /\ result.val.required_baz = layer.required_baz[1]
    /\ result.val.nested.foo_env = layer.nested.foo_env[1]
    /\ result.val.custom = layer.custom[1]

====
